---- MODULE Spec2Model ----
(***************************************************************************)
(* KrishiLink server: the crops collection with its embedded interest      *)
(* lists, and the request handlers of the main server that read and write  *)
(* it.  Every handler is cut at its awaits: one action per store call,     *)
(* together with the synchronous code that follows it up to the next       *)
(* store call or to the response.                                          *)
(*                                                                         *)
(* Quantities are numbers.  Every write sets updatedAt to a new Date, so   *)
(* an updateOne that matches a document always reports modifiedCount 1.    *)
(* Of the timestamps only an interest's updatedAt is kept, as the number   *)
(* of times it has been written (0: the field is absent).                  *)
(***************************************************************************)
EXTENDS Integers, Sequences, FiniteSets, TLC

\* ------------------------------------------------------------------ bounds
MaxReqs == 2
MaxCropId == 2
MaxCalls == 4

\* ------------------------------------------------------------- value sets
CropIds == 1..MaxCropId
OwnerEmails == {"owner@x"}
BuyerEmails == {"b1@x", "b5@x"}
\* Mutant: the list of PATCH /api/interests/:id lacks 'cancelled'.
ValidStatusesNoCancelled == {"accepted", "rejected", "pending"}

ValidStatuses == {"accepted", "rejected", "pending", "cancelled"}
LegacyStatuses == {"accepted", "rejected", "pending"}

Reqs == 1..MaxReqs

\* The connectDB calls of src/config/db.js.
Calls == 1..MaxCalls

MkInterest(i, e, q, s) ==
  [id |-> i, userEmail |-> e, quantity |-> q, status |-> s, updatedAt |-> 0]

\* The interest list of the crop the store starts with: four submissions by
\* distinct buyers, positive quantities, all pending, identifiers in
\* submission order.
SeedInterests ==
  << MkInterest(1, "b1@x", 60, "pending"), MkInterest(2, "b2@x", 50, "pending"),
     MkInterest(3, "b3@x", 40, "pending"), MkInterest(4, "b4@x", 120, "pending") >>

InitQuantities == {100}

InterestIds == 1..(Len(SeedInterests) + MaxReqs)

\* ------------------------------------------------------------------ state
VARIABLES
  cropsCollection,   \* the set of crop documents
  usersCollection,   \* the user documents, by email, in the order of their insertOne
  req,               \* per request in flight: route, position, inputs, what it read
  resp,              \* the response sent by the latest step, NoResp if it sent none
  nextInterestId,    \* the next identifier new ObjectId() hands out for an interest
  nextCropId,        \* the next identifier insertOne hands out for a crop
  decremented,       \* history: per interest, the total $inc taken from its crop
  quantity0,         \* history: the crop's quantity when the first request began
  isConnected,       \* main server: let isConnected
  collections,       \* main server: db, cropsCollection and usersCollection are assigned
  startup,           \* main server: position of the connectDB() call made at load
  db,                \* src/config/db.js: let db is assigned
  isConnecting,      \* src/config/db.js: let isConnecting
  calls,             \* src/config/db.js: per connectDB call, its position and result
  got                \* src/config/db.js: outcome of the getDB call of the latest step

\* The module state of the main server's connection.
serverVars == << isConnected, collections, startup >>

\* The module state of src/config/db.js and its callers.
configVars == << db, isConnecting, calls, got >>

vars == << cropsCollection, usersCollection, req, resp, nextInterestId, nextCropId, decremented, quantity0,
           serverVars, configVars >>

\* ---------------------------------------------------------------- documents
NoDoc == [id |-> 0, ownerEmail |-> "", quantity |-> 0, interests |-> << >>]
NoInterest == MkInterest(0, "", 0, "")

\* Mutant: the findOne has no filter and returns any stored document.
FindOneByIdAny(coll, cropId) ==
  IF coll # {} THEN CHOOSE d \in coll : TRUE ELSE NoDoc

\* cropsCollection.findOne({ _id: new ObjectId(cropId) })
FindOneById(coll, cropId) ==
  IF \E d \in coll : d.id = cropId
    THEN CHOOSE d \in coll : d.id = cropId
    ELSE NoDoc

HasInterest(d, interestId) ==
  \E k \in DOMAIN d.interests : d.interests[k].id = interestId

\* cropsCollection.findOne({ "interests._id": interestId })
FindOneByInterestId(coll, interestId) ==
  IF \E d \in coll : HasInterest(d, interestId)
    THEN CHOOSE d \in coll : HasInterest(d, interestId)
    ELSE NoDoc

\* crop.interests?.find((int) => int._id === interestId): the first match
FindInterest(crop, interestId) ==
  IF HasInterest(crop, interestId)
    THEN LET k == CHOOSE k \in DOMAIN crop.interests :
                    /\ crop.interests[k].id = interestId
                    /\ \A j \in 1..(k - 1) : crop.interests[j].id # interestId
         IN crop.interests[k]
    ELSE NoInterest

\* Mutant: the write leaves the updated document alone in the collection.
UpdateOneOnly(coll, doc, updated) == {updated}

\* cropsCollection.updateOne({ _id: ... }, ...): the one document the filter
\* selects is replaced by its updated form
UpdateOne(coll, doc, updated) == (coll \ {doc}) \cup {updated}

\* ----------------------------------------------------------- request slots
\* The body of PUT /api/crops/:id, by the keys it carries: quantity,
\* the top-level key interests (an empty list), and the dotted key
\* "interests.<statusAt - 1>.status" with value status (statusAt 0: no such
\* key).
NoBody ==
  [hasQuantity |-> FALSE, quantity |-> 0, hasInterests |-> FALSE,
   statusAt |-> 0, status |-> ""]

IdleReq ==
  [op |-> "none", pc |-> "idle", cropId |-> 0, interestId |-> 0,
   status |-> "", userEmail |-> "", quantity |-> 0,
   crop |-> NoDoc, code |-> 0, message |-> "", requested |-> 0, available |-> 0,
   warning |-> FALSE, body |-> NoBody, authorization |-> FALSE]

\* Slots are taken in order, so that equal sets of requests are one state.
CanStart(r) ==
  /\ req[r].pc = "idle"
  /\ IF r = 1 THEN TRUE ELSE req[r - 1].pc # "idle"

\* res.status(code).json({ message }): the handler ends.  The crop of a
\* response is its data, NoDoc for null; the rereads set it.
Respond(rec, code, message) ==
  [rec EXCEPT !.pc = "done", !.crop = NoDoc, !.code = code, !.message = message]

NoResp == IdleReq

DoneReq == [IdleReq EXCEPT !.pc = "done"]

\* What stays on record of a finished request: of an accept request its
\* route, target and HTTP status; of any other request nothing.
Retire(rec) ==
  IF rec.op \in {"patchInterest", "putInterestStatus", "routerPutStatus"}
       /\ rec.status = "accepted"
    THEN [DoneReq EXCEPT !.op = rec.op, !.interestId = rec.interestId,
                         !.status = rec.status, !.code = rec.code]
    ELSE DoneReq

\* One step of request r that leaves it as out: still in flight, or answered.
Step(r, out) ==
  /\ req' = [req EXCEPT ![r] = IF out.pc = "done" THEN Retire(out) ELSE out]
  /\ resp' = IF out.pc = "done" THEN out ELSE NoResp

\* ------------------------------------------------- interest status transition
\* Mutant: every transition of an interest with a quantity takes stock.
IsAcceptingAnyStatus(status, interest) == interest.quantity > 0

\* status === "accepted" && interest.quantity > 0
IsAccepting(status, interest) ==
  status = "accepted" /\ interest.quantity > 0

\* Mutant: the update carries no quantity condition.
QuantityFilterNone(doc, status, interest) == TRUE

\* the updateOne filter beside _id: { quantity: { $gte: interest.quantity } }
\* when accepting, nothing otherwise
QuantityFilter(doc, status, interest) ==
  IsAccepting(status, interest) => doc.quantity >= interest.quantity

\* Mutant: the array filter selects every element.
ElemMatchesAll(elem, interestId) == TRUE

\* arrayFilters: [{ "elem._id": interestId }]
ElemMatches(elem, interestId) == elem.id = interestId

\* Mutant: an accepted interest keeps its status.
SetInterestStatusKeepAccepted(interests, interestId, status) ==
  [k \in DOMAIN interests |->
     IF interests[k].id = interestId /\ interests[k].status # "accepted"
       THEN [interests[k] EXCEPT !.status = status, !.updatedAt = @ + 1]
       ELSE interests[k]]

\* $set "interests.$[elem].status" with arrayFilters [{ "elem._id": interestId }]
SetInterestStatus(interests, interestId, status) ==
  [k \in DOMAIN interests |->
     IF ElemMatches(interests[k], interestId)
       THEN [interests[k] EXCEPT !.status = status, !.updatedAt = @ + 1]
       ELSE interests[k]]

\* Mutant: the update sets the status and forgets the $inc.
ApplyUpdateQuerySetOnly(doc, interestId, status, interest) ==
  [doc EXCEPT !.interests = SetInterestStatus(@, interestId, status)]

\* updateQuery: the $set of the status, and the $inc when accepting
ApplyUpdateQuery(doc, interestId, status, interest) ==
  [doc EXCEPT
     !.interests = SetInterestStatus(@, interestId, status),
     !.quantity = IF IsAccepting(status, interest) THEN @ - interest.quantity ELSE @]

\* Mutant: the stock pre-check never refuses.
InsufficientQuantityNever(crop, interest) == FALSE

\* crop.quantity < interest.quantity
InsufficientQuantity(crop, interest) == crop.quantity < interest.quantity

\* Mutant: the already-accepted test is missing.
CheckTransitionNoAccepted(rec, crop, interest, status) ==
  IF IsAccepting(status, interest) /\ InsufficientQuantity(crop, interest)
    THEN [Respond(rec, 400, "Insufficient quantity available")
            EXCEPT !.requested = interest.quantity, !.available = crop.quantity]
  ELSE [rec EXCEPT !.pc = "update", !.crop = crop]

\* The synchronous code between the first findOne and the updateOne, the
\* same in both routes: already accepted, then the stock pre-check.
CheckTransition(rec, crop, interest, status) ==
  IF interest.status = "accepted" /\ status = "accepted"
    THEN Respond(rec, 400, "Interest has already been accepted")
  ELSE IF IsAccepting(status, interest) /\ InsufficientQuantity(crop, interest)
    THEN [Respond(rec, 400, "Insufficient quantity available")
            EXCEPT !.requested = interest.quantity, !.available = crop.quantity]
  ELSE [rec EXCEPT !.pc = "update", !.crop = crop]

\* PATCH /api/interests/:id, up to the updateOne
PatchInterestRead(r, interestId, status) ==
  /\ CanStart(r)
  /\ LET rec == [IdleReq EXCEPT !.op = "patchInterest",
                                !.interestId = interestId, !.status = status]
         crop == FindOneByInterestId(cropsCollection, interestId)
         interest == FindInterest(crop, interestId)
     IN Step(r,
          IF status = ""
            THEN Respond(rec, 400, "Missing required field: status")
          ELSE IF status \notin ValidStatuses
            THEN Respond(rec, 400,
                         "Invalid status. Must be 'accepted', 'rejected', 'pending', or 'cancelled'")
          ELSE IF crop = NoDoc
            THEN Respond(rec, 404, "Interest not found")
          ELSE IF interest = NoInterest
            THEN Respond(rec, 404, "Interest not found")
          ELSE CheckTransition(rec, crop, interest, status))
  /\ UNCHANGED << serverVars, configVars, usersCollection, cropsCollection, nextInterestId, nextCropId, decremented, quantity0 >>

\* PUT /api/interests/status, up to the updateOne
PutInterestStatusRead(r, interestId, cropId, status) ==
  /\ CanStart(r)
  /\ LET rec == [IdleReq EXCEPT !.op = "putInterestStatus", !.cropId = cropId,
                                !.interestId = interestId, !.status = status]
         crop == FindOneById(cropsCollection, cropId)
         interest == FindInterest(crop, interestId)
     IN Step(r,
          IF interestId = 0 \/ cropId = 0 \/ status = ""
            THEN Respond(rec, 400, "Missing required fields: interestId, cropId, status")
          ELSE IF status \notin LegacyStatuses
            THEN Respond(rec, 400,
                         "Invalid status. Must be 'accepted', 'rejected', or 'pending'")
          ELSE IF crop = NoDoc
            THEN Respond(rec, 404, "Crop not found")
          ELSE IF interest = NoInterest
            THEN Respond(rec, 404, "Interest not found")
          ELSE CheckTransition(rec, crop, interest, status))
  /\ UNCHANGED << serverVars, configVars, usersCollection, cropsCollection, nextInterestId, nextCropId, decremented, quantity0 >>

\* The updateOne of either route and the modifiedCount test after it.  The
\* document is selected by the _id that was read and by the quantity filter;
\* interest.quantity is the value that was read.
InterestUpdate(r) ==
  /\ req[r].pc = "update"
  /\ req[r].op \in {"patchInterest", "putInterestStatus"}
  /\ LET rec == req[r]
         interest == FindInterest(rec.crop, rec.interestId)
         doc == FindOneById(cropsCollection, rec.crop.id)
         matched == doc # NoDoc /\ QuantityFilter(doc, rec.status, interest)
         updated == ApplyUpdateQuery(doc, rec.interestId, rec.status, interest)
     IN IF matched
          THEN /\ cropsCollection' = UpdateOne(cropsCollection, doc, updated)
               /\ decremented' =
                    [decremented EXCEPT ![rec.interestId] =
                       @ + (doc.quantity - updated.quantity)]
               /\ Step(r, [rec EXCEPT !.pc = "reread"])
          ELSE /\ Step(r, Respond(rec, 500, "Failed to update interest status"))
               /\ UNCHANGED << cropsCollection, decremented >>
  /\ UNCHANGED << serverVars, configVars, usersCollection, nextInterestId, nextCropId, quantity0 >>

\* The closing findOne of either route and the success response
InterestReread(r) ==
  /\ req[r].pc = "reread"
  /\ req[r].op \in {"patchInterest", "putInterestStatus"}
  /\ LET updatedCrop == FindOneById(cropsCollection, req[r].crop.id)
     IN Step(r, [Respond(req[r], 200, "Interest " \o req[r].status \o " successfully")
                   EXCEPT !.crop = updatedCrop])
  /\ UNCHANGED << serverVars, configVars, usersCollection, cropsCollection, nextInterestId, nextCropId, decremented, quantity0 >>

\* ------------------------------- interests router: PUT /status (part_001)
\* Math.max(0, crop.quantity - interest.quantity)
NewQuantity(crop, interest) ==
  IF crop.quantity - interest.quantity > 0 THEN crop.quantity - interest.quantity ELSE 0

\* updateQuery of the router: the $set of the status, and of the quantity
\* computed from the crop that was read when accepting
RouterUpdateQuery(doc, crop, interestId, status, interest) ==
  [doc EXCEPT
     !.interests = SetInterestStatus(@, interestId, status),
     !.quantity = IF IsAccepting(status, interest) THEN NewQuantity(crop, interest) ELSE @]

\* PUT /status of the interests router, up to the updateOne
RouterStatusRead(r, interestId, cropId, status) ==
  /\ CanStart(r)
  /\ LET rec == [IdleReq EXCEPT !.op = "routerPutStatus", !.cropId = cropId,
                                !.interestId = interestId, !.status = status]
         crop == FindOneById(cropsCollection, cropId)
         interest == FindInterest(crop, interestId)
     IN Step(r,
          IF interestId = 0 \/ cropId = 0 \/ status = ""
            THEN Respond(rec, 400, "Missing required fields: interestId, cropId, status")
          ELSE IF status \notin LegacyStatuses
            THEN Respond(rec, 400,
                         "Invalid status. Must be 'accepted', 'rejected', or 'pending'")
          ELSE IF crop = NoDoc
            THEN Respond(rec, 404, "Crop not found")
          ELSE IF interest = NoInterest
            THEN Respond(rec, 404, "Interest not found")
          ELSE [rec EXCEPT !.pc = "update", !.crop = crop])
  /\ UNCHANGED << serverVars, configVars, usersCollection, cropsCollection, nextInterestId, nextCropId, decremented, quantity0 >>

\* the updateOne of the router, filtered by _id alone, and the
\* modifiedCount test
RouterStatusUpdate(r) ==
  /\ req[r].pc = "update"
  /\ req[r].op = "routerPutStatus"
  /\ LET rec == req[r]
         interest == FindInterest(rec.crop, rec.interestId)
         doc == FindOneById(cropsCollection, rec.cropId)
         updated == RouterUpdateQuery(doc, rec.crop, rec.interestId, rec.status, interest)
     IN IF doc # NoDoc
          THEN /\ cropsCollection' = UpdateOne(cropsCollection, doc, updated)
               /\ decremented' =
                    [decremented EXCEPT ![rec.interestId] =
                       @ + (doc.quantity - updated.quantity)]
               /\ Step(r, [rec EXCEPT !.pc = "reread"])
          ELSE /\ Step(r, Respond(rec, 500, "Failed to update interest status"))
               /\ UNCHANGED << cropsCollection, decremented >>
  /\ UNCHANGED << serverVars, configVars, usersCollection, nextInterestId, nextCropId, quantity0 >>

\* the closing findOne of the router and the success response
RouterStatusReread(r) ==
  /\ req[r].pc = "reread"
  /\ req[r].op = "routerPutStatus"
  /\ LET updatedCrop == FindOneById(cropsCollection, req[r].cropId)
     IN Step(r, [Respond(req[r], 200, "Interest " \o req[r].status \o " successfully")
                   EXCEPT !.crop = updatedCrop])
  /\ UNCHANGED << serverVars, configVars, usersCollection, cropsCollection, nextInterestId, nextCropId, decremented, quantity0 >>

\* ------------------------------------------------------- interest submission
\* Mutant: the duplicate scan finds nothing.
HasInterestOfNever(crop, userEmail) == FALSE

\* crop.interests?.find((interest) => interest.userEmail === userEmail)
HasInterestOf(crop, userEmail) ==
  \E k \in DOMAIN crop.interests : crop.interests[k].userEmail = userEmail

\* Mutant: only a negative quantity is refused.
QuantityErrorNegativeOnly(requestedQuantity) ==
  IF requestedQuantity < 0 THEN "Quantity cannot be negative" ELSE ""

\* The validation of requestedQuantity = quantity || 0: the message of the
\* 400 response, "" when the quantity passes.  A missing quantity is 0.
QuantityError(requestedQuantity) ==
  IF requestedQuantity < 0 THEN "Quantity cannot be negative"
  ELSE IF requestedQuantity = 0 THEN "Quantity must be greater than 0"
  ELSE ""

\* Mutant: the warning is never raised.
HasWarningNever(requestedQuantity, crop) == FALSE

\* warning: requestedQuantity > crop.quantity
HasWarning(requestedQuantity, crop) == requestedQuantity > crop.quantity

\* Mutant: the new interest is stored as accepted.
NewInterestAccepted(interestId, userEmail, requestedQuantity) ==
  MkInterest(interestId, userEmail, requestedQuantity, "accepted")

\* newInterest: status "pending", no updatedAt
NewInterest(interestId, userEmail, requestedQuantity) ==
  MkInterest(interestId, userEmail, requestedQuantity, "pending")

\* Mutant: the interest list is set to the new interest instead of pushed to.
PushInterestSet(interests, newInterest) == << newInterest >>

\* $push: { interests: newInterest }
PushInterest(interests, newInterest) == Append(interests, newInterest)

\* POST /api/interests, up to the updateOne.  quantity 0 stands for a zero
\* and for a missing quantity alike.
\* Mutant: the quantity is validated before the crop is looked up.
SubmissionErrorQuantityFirst(cropId, userEmail, crop, quantity) ==
  IF cropId = 0 \/ userEmail = ""
    THEN [code |-> 400, message |-> "Missing required fields: cropId, userEmail, userName"]
  ELSE IF QuantityError(quantity) # ""
    THEN [code |-> 400, message |-> QuantityError(quantity)]
  ELSE IF crop = NoDoc
    THEN [code |-> 404, message |-> "Crop not found"]
  ELSE IF HasInterestOf(crop, userEmail)
    THEN [code |-> 400, message |-> "You have already shown interest in this crop"]
  ELSE [code |-> 0, message |-> ""]

\* The checks of the submission in the handler's order: required fields, the
\* crop read by findOne, the duplicate scan, then the quantity.  crop is the
\* result of the findOne; code 0 when every check passes.
SubmissionError(cropId, userEmail, crop, quantity) ==
  IF cropId = 0 \/ userEmail = ""
    THEN [code |-> 400, message |-> "Missing required fields: cropId, userEmail, userName"]
  ELSE IF crop = NoDoc
    THEN [code |-> 404, message |-> "Crop not found"]
  ELSE IF HasInterestOf(crop, userEmail)
    THEN [code |-> 400, message |-> "You have already shown interest in this crop"]
  ELSE IF QuantityError(quantity) # ""
    THEN [code |-> 400, message |-> QuantityError(quantity)]
  ELSE [code |-> 0, message |-> ""]

PostInterestRead(r, cropId, userEmail, quantity) ==
  /\ CanStart(r)
  /\ LET rec == [IdleReq EXCEPT !.op = "postInterest", !.cropId = cropId,
                                !.userEmail = userEmail, !.quantity = quantity]
         crop == FindOneById(cropsCollection, cropId)
         error == SubmissionError(cropId, userEmail, crop, quantity)
     IN /\ Step(r,
             IF error.code # 0
               THEN Respond(rec, error.code, error.message)
             ELSE [rec EXCEPT !.pc = "update", !.crop = crop,
                              !.warning = HasWarning(quantity, crop),
                              !.interestId = nextInterestId])
        /\ nextInterestId' = IF error.code = 0 THEN nextInterestId + 1 ELSE nextInterestId
  /\ UNCHANGED << serverVars, configVars, usersCollection, cropsCollection, nextCropId, decremented, quantity0 >>

\* Mutant: the updateOne always reports one modified document.
ModifiedCountOne(doc) == 1

\* result.modifiedCount of the $push: doc is the document the filter
\* { _id } selects, NoDoc when there is none
ModifiedCount(doc) == IF doc # NoDoc THEN 1 ELSE 0

\* the updateOne with $push of newInterest, and the modifiedCount test
PostInterestUpdate(r) ==
  /\ req[r].pc = "update"
  /\ req[r].op = "postInterest"
  /\ LET rec == req[r]
         doc == FindOneById(cropsCollection, rec.cropId)
         newInterest == NewInterest(rec.interestId, rec.userEmail, rec.quantity)
         updated == [doc EXCEPT !.interests = PushInterest(@, newInterest)]
     IN /\ cropsCollection' = IF doc # NoDoc
                                THEN UpdateOne(cropsCollection, doc, updated)
                                ELSE cropsCollection
        /\ Step(r, IF ModifiedCount(doc) = 0
                     THEN [Respond(rec, 500, "Failed to add interest to crop")
                             EXCEPT !.warning = FALSE]
                     ELSE Respond(rec, 201, "Interest added successfully"))
  /\ UNCHANGED << serverVars, configVars, usersCollection, nextInterestId, nextCropId, decremented, quantity0 >>

\* ------------------------------------------------------------------- crops
\* The routes of /api/crops are registered with ensureDBConnection as their
\* only middleware: authorization, the presence of an
\* "Authorization: Bearer <token>" header, is carried by the request and read
\* by nothing.
\* POST /api/crops: validation and insertOne.  fieldsOk: name, type, unit,
\* description and location are all present.
PostCrop(r, authorization, fieldsOk, pricePerUnit, quantity, ownerEmail) ==
  /\ CanStart(r)
  /\ nextCropId <= MaxCropId
  /\ LET rec == [IdleReq EXCEPT !.op = "postCrop", !.quantity = quantity,
                                !.userEmail = ownerEmail,
                                !.authorization = authorization]
         valid == fieldsOk /\ pricePerUnit > 0 /\ quantity > 0
         newCrop == [id |-> nextCropId, ownerEmail |-> ownerEmail,
                     quantity |-> quantity, interests |-> << >>]
     IN /\ Step(r,
             IF ~fieldsOk
               THEN Respond(rec, 400, "Missing required fields")
             ELSE IF pricePerUnit <= 0
               THEN Respond(rec, 400, "Price per unit must be greater than 0")
             ELSE IF quantity <= 0
               THEN Respond(rec, 400, "Quantity must be greater than 0")
             ELSE Respond([rec EXCEPT !.cropId = nextCropId], 201, "Crop added successfully"))
        /\ cropsCollection' = IF valid THEN cropsCollection \cup {newCrop}
                                       ELSE cropsCollection
        /\ nextCropId' = IF valid THEN nextCropId + 1 ELSE nextCropId
  /\ UNCHANGED << serverVars, configVars, usersCollection, nextInterestId, decremented, quantity0 >>

\* Mutant: a negative quantity passes the validation of the update.
QuantityRefusedNever(hasQuantity, quantity) == FALSE

\* updateData.quantity !== undefined && updateData.quantity < 0
QuantityRefused(hasQuantity, quantity) == hasQuantity /\ quantity < 0

\* const { _id, interests, createdAt, ...updateData } = req.body: the
\* top-level key interests is dropped, every other key stays
UpdateData(body) == [body EXCEPT !.hasInterests = FALSE]

\* $set: { ...updateData, updatedAt } on document doc.  The store reads a
\* dotted key as a path into the document; statusAt is taken to lie within
\* the interest list.
SetUpdateData(doc, updateData) ==
  [doc EXCEPT
     !.quantity = IF updateData.hasQuantity THEN updateData.quantity ELSE @,
     !.interests =
        IF updateData.hasInterests THEN << >>
        ELSE IF updateData.statusAt \in DOMAIN @
          THEN [@ EXCEPT ![updateData.statusAt].status = updateData.status]
        ELSE @]

\* PUT /api/crops/:id, up to the updateOne.  pricePerUnit is taken to be
\* absent or valid.
PutCropRead(r, authorization, cropId, userEmail, body) ==
  /\ CanStart(r)
  /\ LET rec == [IdleReq EXCEPT !.op = "putCrop", !.cropId = cropId,
                                !.userEmail = userEmail, !.body = body,
                                !.authorization = authorization]
         updateData == UpdateData(body)
         existingCrop == FindOneById(cropsCollection, cropId)
     IN Step(r,
          IF existingCrop = NoDoc
            THEN Respond(rec, 404, "Crop not found")
          ELSE IF existingCrop.ownerEmail # userEmail
            THEN Respond(rec, 403, "Unauthorized: You can only update your own crops")
          ELSE IF QuantityRefused(updateData.hasQuantity, updateData.quantity)
            THEN Respond(rec, 400, "Quantity cannot be negative")
          ELSE [rec EXCEPT !.pc = "update", !.crop = existingCrop])
  /\ UNCHANGED << serverVars, configVars, usersCollection, cropsCollection, nextInterestId, nextCropId, decremented, quantity0 >>

\* the updateOne with $set of updateData, and the modifiedCount test
PutCropUpdate(r) ==
  /\ req[r].pc = "update"
  /\ req[r].op = "putCrop"
  /\ LET rec == req[r]
         doc == FindOneById(cropsCollection, rec.cropId)
         updated == SetUpdateData(doc, UpdateData(rec.body))
     IN IF doc # NoDoc
          THEN /\ cropsCollection' = UpdateOne(cropsCollection, doc, updated)
               /\ Step(r, [rec EXCEPT !.pc = "reread"])
          ELSE /\ Step(r, Respond(rec, 400, "No changes made to the crop"))
               /\ UNCHANGED cropsCollection
  /\ UNCHANGED << serverVars, configVars, usersCollection, nextInterestId, nextCropId, decremented, quantity0 >>

\* the closing findOne and the success response
PutCropReread(r) ==
  /\ req[r].pc = "reread"
  /\ req[r].op = "putCrop"
  /\ LET updatedCrop == FindOneById(cropsCollection, req[r].cropId)
     IN Step(r, [Respond(req[r], 200, "Crop updated successfully")
                   EXCEPT !.crop = updatedCrop])
  /\ UNCHANGED << serverVars, configVars, usersCollection, cropsCollection, nextInterestId, nextCropId, decremented, quantity0 >>

\* existingCrop.interests?.filter((interest) => interest.status === "pending")
PendingInterests(crop) ==
  {k \in DOMAIN crop.interests : crop.interests[k].status = "pending"}

\* DELETE /api/crops/:id, up to the deleteOne
DeleteCropRead(r, authorization, cropId, userEmail) ==
  /\ CanStart(r)
  /\ LET rec == [IdleReq EXCEPT !.op = "deleteCrop", !.cropId = cropId,
                                !.userEmail = userEmail,
                                !.authorization = authorization]
         existingCrop == FindOneById(cropsCollection, cropId)
     IN Step(r,
          IF existingCrop = NoDoc
            THEN Respond(rec, 404, "Crop not found")
          ELSE IF existingCrop.ownerEmail # userEmail
            THEN Respond(rec, 403, "Unauthorized: You can only delete your own crops")
          ELSE [rec EXCEPT !.pc = "update", !.crop = existingCrop,
                           !.warning = (PendingInterests(existingCrop) # {})])
  /\ UNCHANGED << serverVars, configVars, usersCollection, cropsCollection, nextInterestId, nextCropId, decremented, quantity0 >>

\* the deleteOne and the success response, with or without the warning
DeleteCropDelete(r) ==
  /\ req[r].pc = "update"
  /\ req[r].op = "deleteCrop"
  /\ cropsCollection' = {d \in cropsCollection : d.id # req[r].cropId}
  /\ Step(r, Respond(req[r], 200, "Crop deleted successfully"))
  /\ UNCHANGED << serverVars, configVars, usersCollection, nextInterestId, nextCropId, decremented, quantity0 >>

\* ------------------------------------------------------------------- users
\* usersCollection.findOne({ email })
FindUser(coll, email) == \E k \in DOMAIN coll : coll[k] = email

\* POST /api/users, up to the insertOne
PostUserRead(r, email) ==
  /\ CanStart(r)
  /\ LET rec == [IdleReq EXCEPT !.op = "postUser", !.userEmail = email]
     IN Step(r,
          IF email = ""
            THEN Respond(rec, 400, "Email is required")
          ELSE IF FindUser(usersCollection, email)
            THEN Respond(rec, 200, "User already exists")
          ELSE [rec EXCEPT !.pc = "update"])
  /\ UNCHANGED << serverVars, configVars, usersCollection, cropsCollection, nextInterestId, nextCropId,
                  decremented, quantity0 >>

\* the insertOne of newUser and the 201 response
PostUserInsert(r) ==
  /\ req[r].pc = "update"
  /\ req[r].op = "postUser"
  /\ usersCollection' = Append(usersCollection, req[r].userEmail)
  /\ Step(r, Respond(req[r], 201, "User created successfully"))
  /\ UNCHANGED << serverVars, configVars, cropsCollection, nextInterestId, nextCropId, decremented, quantity0 >>

\* ------------------------------------------ store exceptions (catch blocks)
\* Mutant: the catch block logs the error and sends nothing.
CatchResponseSwallowed(rec) == [rec EXCEPT !.pc = "hung"]

\* catch (error) { res.status(500).json({ success: false, message }) } of
\* POST /api/interests and of the two status routes
CatchResponse(rec) ==
  [Respond(rec, 500, IF rec.op = "postInterest"
                       THEN "Failed to add interest"
                       ELSE "Failed to update interest status")
     EXCEPT !.warning = FALSE]

\* POST /api/interests: the required fields are present and the findOne rejects
PostInterestReadThrows(r, cropId, userEmail, quantity) ==
  /\ CanStart(r)
  /\ cropId # 0 /\ userEmail # ""
  /\ Step(r, CatchResponse([IdleReq EXCEPT !.op = "postInterest", !.cropId = cropId,
                                           !.userEmail = userEmail, !.quantity = quantity]))
  /\ UNCHANGED << serverVars, configVars, usersCollection, cropsCollection, nextInterestId, nextCropId, decremented, quantity0 >>

\* POST /api/interests: the updateOne rejects; the store is left as it was
PostInterestUpdateThrows(r) ==
  /\ req[r].pc = "update"
  /\ req[r].op = "postInterest"
  /\ Step(r, CatchResponse(req[r]))
  /\ UNCHANGED << serverVars, configVars, usersCollection, cropsCollection, nextInterestId, nextCropId, decremented, quantity0 >>

\* PATCH /api/interests/:id: the status is valid and the findOne rejects
PatchInterestReadThrows(r, interestId, status) ==
  /\ CanStart(r)
  /\ status \in ValidStatuses
  /\ Step(r, CatchResponse([IdleReq EXCEPT !.op = "patchInterest",
                                           !.interestId = interestId, !.status = status]))
  /\ UNCHANGED << serverVars, configVars, usersCollection, cropsCollection, nextInterestId, nextCropId, decremented, quantity0 >>

\* PUT /api/interests/status: the body is valid and the findOne rejects
PutInterestStatusReadThrows(r, interestId, cropId, status) ==
  /\ CanStart(r)
  /\ interestId # 0 /\ cropId # 0 /\ status \in LegacyStatuses
  /\ Step(r, CatchResponse([IdleReq EXCEPT !.op = "putInterestStatus", !.cropId = cropId,
                                           !.interestId = interestId, !.status = status]))
  /\ UNCHANGED << serverVars, configVars, usersCollection, cropsCollection, nextInterestId, nextCropId, decremented, quantity0 >>

\* Either status route: the updateOne rejects; the store is left as it was
InterestUpdateThrows(r) ==
  /\ req[r].pc = "update"
  /\ req[r].op \in {"patchInterest", "putInterestStatus"}
  /\ Step(r, CatchResponse(req[r]))
  /\ UNCHANGED << serverVars, configVars, usersCollection, cropsCollection, nextInterestId, nextCropId, decremented, quantity0 >>

\* Either status route: the closing findOne rejects
InterestRereadThrows(r) ==
  /\ req[r].pc = "reread"
  /\ req[r].op \in {"patchInterest", "putInterestStatus"}
  /\ Step(r, CatchResponse(req[r]))
  /\ UNCHANGED << serverVars, configVars, usersCollection, cropsCollection, nextInterestId, nextCropId, decremented, quantity0 >>

\* ------------------------------------ main server: connectDB and the gate
\* Mutant: connectDB raises the flag and assigns nothing.
AssignConnectionFlagOnly(assigned) == assigned

\* db = client.db(..); cropsCollection = db.collection("crops");
\* usersCollection = db.collection("users")
AssignConnection(assigned) == TRUE

\* ensureDBConnection up to its first await: next() when isConnected, else
\* connectDB(), whose test isConnected && db fails, up to client.connect()
EnsureDBConnection(r, op) ==
  /\ CanStart(r)
  /\ Step(r, [IdleReq EXCEPT !.op = op,
                             !.pc = IF isConnected THEN "handler" ELSE "connecting"])
  /\ UNCHANGED << serverVars, configVars, usersCollection, cropsCollection, nextInterestId, nextCropId, decremented, quantity0 >>

\* client.connect() of a request's connectDB resolves: the assignments,
\* isConnected = true, and next() in ensureDBConnection
ConnectResolves(r) ==
  /\ req[r].pc = "connecting"
  /\ collections' = AssignConnection(collections)
  /\ isConnected' = TRUE
  /\ Step(r, [req[r] EXCEPT !.pc = "handler"])
  /\ UNCHANGED << startup, configVars, usersCollection, cropsCollection, nextInterestId, nextCropId, decremented, quantity0 >>

\* client.connect() of a request's connectDB rejects: isConnected = false,
\* the throw, and the 503 of ensureDBConnection
ConnectRejects(r) ==
  /\ req[r].pc = "connecting"
  /\ isConnected' = FALSE
  /\ Step(r, Respond(req[r], 503, "Database connection failed"))
  /\ UNCHANGED << collections, startup, configVars, usersCollection, cropsCollection, nextInterestId, nextCropId, decremented, quantity0 >>

\* client.connect() of the connectDB() made at load resolves
StartupResolves ==
  /\ startup = "connecting"
  /\ collections' = AssignConnection(collections)
  /\ isConnected' = TRUE
  /\ startup' = "returned"
  /\ resp' = NoResp
  /\ UNCHANGED << req, configVars, usersCollection, cropsCollection, nextInterestId, nextCropId, decremented, quantity0 >>

\* client.connect() of the connectDB() made at load rejects; .catch(console.dir)
StartupRejects ==
  /\ startup = "connecting"
  /\ isConnected' = FALSE
  /\ startup' = "threw"
  /\ resp' = NoResp
  /\ UNCHANGED << req, collections, configVars, usersCollection, cropsCollection, nextInterestId, nextCropId, decremented, quantity0 >>

\* The route handler after next(): it calls the store through the
\* collection handles and answers; a call on an unassigned handle is a
\* TypeError that the handler's catch answers with 500
HandlerRuns(r) ==
  /\ req[r].pc = "handler"
  /\ Step(r, IF collections
               THEN Respond(req[r], 200, "")
               ELSE Respond(req[r], 500, "TypeError"))
  /\ UNCHANGED << serverVars, configVars, usersCollection, cropsCollection, nextInterestId, nextCropId, decremented, quantity0 >>

\* ------------------------------------------------------------ initial state
\* A connectDB call that has not been made.
IdleCall == [pc |-> "idle", result |-> "none"]

\* src/config/db.js as loaded: db unassigned, no attempt in progress.
InitConfig ==
  /\ db = FALSE
  /\ isConnecting = FALSE
  /\ calls = [c \in Calls |-> IdleCall]
  /\ got = "none"

\* The main server once the connectDB() call made at load has resolved.
InitConnected ==
  /\ isConnected = TRUE
  /\ collections = TRUE
  /\ startup = "returned"

\* One crop, created with a positive quantity, that has received the seeded
\* submissions; no request has begun.
Init ==
  /\ \E q \in InitQuantities :
       /\ cropsCollection =
            {[id |-> 1, ownerEmail |-> "owner@x", quantity |-> q,
              interests |-> SeedInterests]}
       /\ quantity0 = q
  /\ usersCollection = << >>
  /\ InitConnected
  /\ InitConfig
  /\ req = [r \in Reqs |-> IdleReq]
  /\ resp = NoResp
  /\ nextInterestId = Len(SeedInterests) + 1
  /\ nextCropId = 2
  /\ decremented = [i \in InterestIds |-> 0]

\* ------------------------------------------- accept requests only (C1, C3)
AcceptStart ==
  \E r \in Reqs, i \in 1..Len(SeedInterests) :
    \/ PatchInterestRead(r, i, "accepted")
    \/ PutInterestStatusRead(r, i, 1, "accepted")

AcceptUpdate == \E r \in Reqs : InterestUpdate(r)

AcceptReread == \E r \in Reqs : InterestReread(r)

NextAccept == AcceptStart \/ AcceptUpdate \/ AcceptReread

SpecAccept == Init /\ [][NextAccept]_vars

\* ------------------------------------------------ every main-server request
StatusInputs == {"accepted", "pending", "shipped"}
QuantityInputs == {-5, 50}

PatchInterest == \E r \in Reqs, i \in 1..2, s \in StatusInputs :
                   PatchInterestRead(r, i, s)

PutInterestStatus == \E r \in Reqs, i \in 1..2, s \in {"accepted", "cancelled"} :
                       PutInterestStatusRead(r, i, 1, s)

InterestWrite == \E r \in Reqs : InterestUpdate(r)

InterestDone == \E r \in Reqs : InterestReread(r)

PostInterest == \E r \in Reqs, e \in BuyerEmails, q \in QuantityInputs :
                  PostInterestRead(r, 1, e, q)

PostInterestWrite == \E r \in Reqs : PostInterestUpdate(r)

PostCropReq == \E r \in Reqs, q \in QuantityInputs :
                 PostCrop(r, TRUE, TRUE, 10, q, "owner@x")

PutCrop == \E r \in Reqs, e \in {"owner@x", "b5@x"}, h \in BOOLEAN, q \in QuantityInputs :
             PutCropRead(r, TRUE, 1, e, [NoBody EXCEPT !.hasQuantity = h,
                                                 !.quantity = IF h THEN q ELSE 0])

PutCropWrite == \E r \in Reqs : PutCropUpdate(r)

PutCropDone == \E r \in Reqs : PutCropReread(r)

DeleteCrop == \E r \in Reqs, e \in {"owner@x", "b5@x"} : DeleteCropRead(r, TRUE, 1, e)

DeleteCropWrite == \E r \in Reqs : DeleteCropDelete(r)

Next ==
  \/ PatchInterest \/ PutInterestStatus \/ InterestWrite \/ InterestDone
  \/ PostInterest \/ PostInterestWrite
  \/ PostCropReq \/ PutCrop \/ PutCropWrite \/ PutCropDone
  \/ DeleteCrop \/ DeleteCropWrite

Spec == Init /\ [][Next]_vars

\* ------------------------------------------- status transitions only (C4-C6, C10)
TransitionStart ==
  \E r \in Reqs, i \in 1..2 :
    \/ \E s \in {"accepted", "pending"} : PatchInterestRead(r, i, s)
    \/ \E s \in {"accepted", "rejected"} : PutInterestStatusRead(r, i, 1, s)

TransitionUpdate == \E r \in Reqs : InterestUpdate(r)

TransitionReread == \E r \in Reqs : InterestReread(r)

NextTransition == TransitionStart \/ TransitionUpdate \/ TransitionReread

SpecTransition == Init /\ [][NextTransition]_vars

\* ------------------------------------------------ submissions only (C7-C9)
SubmitStart ==
  \E r \in Reqs, c \in CropIds \cup {0}, e \in BuyerEmails \cup {""}, q \in {-5, 0, 40, 120} :
    PostInterestRead(r, c, e, q)

SubmitUpdate == \E r \in Reqs : PostInterestUpdate(r)

NextSubmit == SubmitStart \/ SubmitUpdate

SpecSubmit == Init /\ [][NextSubmit]_vars

\* ------------------------- submissions and transitions to every status (C13-C16)
\* An interest identifier that no submission is ever given.
UnknownInterestId == Len(SeedInterests) + MaxReqs + 1

\* The four statuses of the lifecycle, and "" for a body without status.
StatusTargets == {"pending", "accepted", "rejected", "cancelled", ""}

LifecycleSubmit ==
  \E r \in Reqs, c \in {1, MaxCropId} : PostInterestRead(r, c, "b5@x", 40)

LifecycleSubmitUpdate == \E r \in Reqs : PostInterestUpdate(r)

LifecyclePatch ==
  \E r \in Reqs, i \in {1, Len(SeedInterests) + 1, UnknownInterestId},
     s \in StatusTargets \cup {"shipped"} :
    PatchInterestRead(r, i, s)

LifecyclePut ==
  \E r \in Reqs, i \in {1, UnknownInterestId}, c \in {1, MaxCropId},
     s \in StatusTargets :
    PutInterestStatusRead(r, i, c, s)

LifecycleUpdate == \E r \in Reqs : InterestUpdate(r)

LifecycleReread == \E r \in Reqs : InterestReread(r)

NextLifecycle ==
  \/ LifecycleSubmit \/ LifecycleSubmitUpdate
  \/ LifecyclePatch \/ LifecyclePut \/ LifecycleUpdate \/ LifecycleReread

SpecLifecycle == Init /\ [][NextLifecycle]_vars

\* ------------- submissions beside the owner's update and delete (C17-C19)
AppendStart ==
  \E r \in Reqs, e \in {"b1@x", "b5@x", "b6@x"}, q \in {40, 100, 120} :
    PostInterestRead(r, 1, e, q)

AppendUpdate == \E r \in Reqs : PostInterestUpdate(r)

AppendPutCrop ==
  \E r \in Reqs :
    PutCropRead(r, TRUE, 1, "owner@x", [NoBody EXCEPT !.hasQuantity = TRUE, !.quantity = 150])

AppendPutCropUpdate == \E r \in Reqs : PutCropUpdate(r)

AppendPutCropReread == \E r \in Reqs : PutCropReread(r)

AppendDeleteCrop == \E r \in Reqs : DeleteCropRead(r, TRUE, 1, "owner@x")

AppendDeleteCropDelete == \E r \in Reqs : DeleteCropDelete(r)

NextAppend ==
  \/ AppendStart \/ AppendUpdate
  \/ AppendPutCrop \/ AppendPutCropUpdate \/ AppendPutCropReread
  \/ AppendDeleteCrop \/ AppendDeleteCropDelete

SpecAppend == Init /\ [][NextAppend]_vars

\* ---------------- submissions and transitions with a second crop stored (C20)
TwoCropsPostCrop == \E r \in Reqs : PostCrop(r, TRUE, TRUE, 10, 50, "owner@x")

TwoCropsSubmit ==
  \E r \in Reqs, c \in CropIds : PostInterestRead(r, c, "b5@x", 40)

TwoCropsSubmitUpdate == \E r \in Reqs : PostInterestUpdate(r)

TwoCropsTransition ==
  \E r \in Reqs :
    \/ \E i \in {2, Len(SeedInterests) + 1}, s \in {"accepted", "rejected"} :
         PatchInterestRead(r, i, s)
    \/ \E c \in CropIds : PutInterestStatusRead(r, 2, c, "accepted")

TwoCropsUpdate == \E r \in Reqs : InterestUpdate(r)

TwoCropsReread == \E r \in Reqs : InterestReread(r)

NextTwoCrops ==
  \/ TwoCropsPostCrop \/ TwoCropsSubmit \/ TwoCropsSubmitUpdate
  \/ TwoCropsTransition \/ TwoCropsUpdate \/ TwoCropsReread

SpecTwoCrops == Init /\ [][NextTwoCrops]_vars

\* ------------- crop creation, update and delete by any caller (C21, C23, C24)
\* Bodies of PUT /api/crops/:id: a quantity, a top-level interests key, and
\* the dotted key "interests.0.status".
BodyInputs ==
  {[NoBody EXCEPT !.hasQuantity = TRUE, !.quantity = 50],
   [NoBody EXCEPT !.hasInterests = TRUE],
   [NoBody EXCEPT !.statusAt = 1, !.status = "accepted"]}

\* The user-email header: the owner, another user, absent.
CallerInputs == {"owner@x", "b5@x", ""}

CropEditPostCrop ==
  \E r \in Reqs, a \in BOOLEAN, o \in {"owner@x", ""} :
    PostCrop(r, a, TRUE, 10, 50, o)

CropEditPutCrop ==
  \E r \in Reqs, a \in BOOLEAN, c \in CropIds, e \in CallerInputs, b \in BodyInputs :
    PutCropRead(r, a, c, e, b)

CropEditPutCropUpdate == \E r \in Reqs : PutCropUpdate(r)

CropEditPutCropReread == \E r \in Reqs : PutCropReread(r)

CropEditDeleteCrop ==
  \E r \in Reqs, a \in BOOLEAN, c \in CropIds, e \in CallerInputs :
    DeleteCropRead(r, a, c, e)

CropEditDeleteCropDelete == \E r \in Reqs : DeleteCropDelete(r)

CropEditPatch == \E r \in Reqs : PatchInterestRead(r, 1, "rejected")

CropEditPatchUpdate == \E r \in Reqs : InterestUpdate(r)

CropEditPatchReread == \E r \in Reqs : InterestReread(r)

NextCropEdit ==
  \/ CropEditPostCrop
  \/ CropEditPutCrop \/ CropEditPutCropUpdate \/ CropEditPutCropReread
  \/ CropEditDeleteCrop \/ CropEditDeleteCropDelete
  \/ CropEditPatch \/ CropEditPatchUpdate \/ CropEditPatchReread

SpecCropEdit == Init /\ [][NextCropEdit]_vars

\* ------------- delete beside submissions, no interest pending at first (C22)
\* One crop whose only interest has been rejected; no request has begun.
InitDecided ==
  /\ cropsCollection =
       {[id |-> 1, ownerEmail |-> "owner@x", quantity |-> 100,
         interests |-> << [MkInterest(1, "b1@x", 60, "rejected") EXCEPT !.updatedAt = 1] >>]}
  /\ quantity0 = 100
  /\ usersCollection = << >>
  /\ InitConnected
  /\ InitConfig
  /\ req = [r \in Reqs |-> IdleReq]
  /\ resp = NoResp
  /\ nextInterestId = Len(SeedInterests) + 1
  /\ nextCropId = 2
  /\ decremented = [i \in InterestIds |-> 0]

DeleteSubmit ==
  \E r \in Reqs, e \in {"b1@x", "b5@x", "b6@x"}, q \in {40, 120} :
    PostInterestRead(r, 1, e, q)

DeleteSubmitUpdate == \E r \in Reqs : PostInterestUpdate(r)

DeleteStart ==
  \E r \in Reqs, e \in {"owner@x", "b5@x"} : DeleteCropRead(r, TRUE, 1, e)

DeleteDelete == \E r \in Reqs : DeleteCropDelete(r)

NextDelete == DeleteSubmit \/ DeleteSubmitUpdate \/ DeleteStart \/ DeleteDelete

SpecDelete == InitDecided /\ [][NextDelete]_vars

\* ------------------- PUT /status of the interests router only (C25, C26)
RouterStart ==
  \E r \in Reqs, i \in 1..Len(SeedInterests), s \in {"accepted", "rejected"} :
    RouterStatusRead(r, i, 1, s)

RouterUpdate == \E r \in Reqs : RouterStatusUpdate(r)

RouterReread == \E r \in Reqs : RouterStatusReread(r)

NextRouter == RouterStart \/ RouterUpdate \/ RouterReread

SpecRouter == Init /\ [][NextRouter]_vars

\* ----------------------------------------------- user registrations (C27)
UserEmails == {"u1@x", "u2@x", "u3@x", "u4@x", "u5@x", ""}

UserStart == \E r \in Reqs, e \in UserEmails : PostUserRead(r, e)

UserInsert == \E r \in Reqs : PostUserInsert(r)

NextUsers == UserStart \/ UserInsert

SpecUsers == Init /\ [][NextUsers]_vars

\* ================================================================ properties
TransitionOps == {"patchInterest", "putInterestStatus"}

\* ------------ submissions and transitions whose store calls may reject (C31)
NextRespond ==
  \/ \E r \in Reqs, c \in {1, MaxCropId}, e \in {"b1@x", "b5@x", ""}, q \in {0, 120} :
       PostInterestRead(r, c, e, q)
  \/ \E r \in Reqs : PostInterestReadThrows(r, 1, "b5@x", 120)
  \/ \E r \in Reqs : PostInterestUpdate(r)
  \/ \E r \in Reqs : PostInterestUpdateThrows(r)
  \/ \E r \in Reqs, i \in {1, 4, UnknownInterestId}, s \in {"accepted", "rejected", ""} :
       PatchInterestRead(r, i, s)
  \/ \E r \in Reqs : PatchInterestReadThrows(r, 1, "accepted")
  \/ \E r \in Reqs, s \in {"accepted", "cancelled"} : PutInterestStatusRead(r, 1, 1, s)
  \/ \E r \in Reqs : PutInterestStatusReadThrows(r, 1, 1, "accepted")
  \/ \E r \in Reqs : InterestUpdate(r)
  \/ \E r \in Reqs : InterestUpdateThrows(r)
  \/ \E r \in Reqs : InterestReread(r)
  \/ \E r \in Reqs : InterestRereadThrows(r)

\* The store call request r awaits settles: it resolves or it rejects.
StoreCallSettles(r) ==
  \/ PostInterestUpdate(r) \/ PostInterestUpdateThrows(r)
  \/ InterestUpdate(r) \/ InterestUpdateThrows(r)
  \/ InterestReread(r) \/ InterestRereadThrows(r)

\* Every store call eventually settles.
SpecRespond ==
  Init /\ [][NextRespond]_vars /\ \A r \in Reqs : WF_vars(StoreCallSettles(r))

\* ----------------------------------- src/config/db.js: connectDB and getDB
\* Mutant: the test for an attempt in progress never holds.
AttemptInProgressNever(flag) == FALSE

\* if (isConnecting)
AttemptInProgress(flag) == flag

\* Mutant: the catch block leaves isConnecting as it is.
ResetOnFailureKept(flag) == flag

\* catch (error) { isConnecting = false; ... }
ResetOnFailure(flag) == FALSE

\* The value a call returns with "return db".
Handle(assigned) == IF assigned THEN "db" ELSE "undefined"

\* Calls are made in the order of their index.
CanCall(c) ==
  /\ calls[c].pc = "idle"
  /\ IF c = 1 THEN TRUE ELSE calls[c - 1].pc # "idle"

\* connectDB() up to its first await: return db when it is assigned, the
\* polling loop when an attempt is in progress, else isConnecting = true and
\* client.connect()
ConnectDB(c) ==
  /\ CanCall(c)
  /\ IF db
       THEN /\ calls' = [calls EXCEPT ![c] = [pc |-> "returned", result |-> Handle(db)]]
            /\ UNCHANGED isConnecting
       ELSE IF AttemptInProgress(isConnecting)
         THEN /\ calls' = [calls EXCEPT ![c].pc = "waiting"]
              /\ UNCHANGED isConnecting
         ELSE /\ calls' = [calls EXCEPT ![c].pc = "connect"]
              /\ isConnecting' = TRUE
  /\ got' = "none"
  /\ UNCHANGED << db, serverVars, usersCollection, cropsCollection, req, resp, nextInterestId, nextCropId, decremented, quantity0 >>

\* A timeout of the polling loop fires with isConnecting false: return db.
\* The timeouts that find isConnecting true change nothing.
PollEnds(c) ==
  /\ calls[c].pc = "waiting"
  /\ ~isConnecting
  /\ calls' = [calls EXCEPT ![c] = [pc |-> "returned", result |-> Handle(db)]]
  /\ got' = "none"
  /\ UNCHANGED << db, isConnecting, serverVars, usersCollection, cropsCollection, req, resp, nextInterestId, nextCropId, decremented, quantity0 >>

\* client.connect() resolves: db = client.db(..), then the ping is sent
ClientConnectResolves(c) ==
  /\ calls[c].pc = "connect"
  /\ db' = TRUE
  /\ calls' = [calls EXCEPT ![c].pc = "ping"]
  /\ got' = "none"
  /\ UNCHANGED << isConnecting, serverVars, usersCollection, cropsCollection, req, resp, nextInterestId, nextCropId, decremented, quantity0 >>

\* client.connect() rejects: the catch block
ClientConnectRejects(c) ==
  /\ calls[c].pc = "connect"
  /\ isConnecting' = ResetOnFailure(isConnecting)
  /\ calls' = [calls EXCEPT ![c].pc = "threw"]
  /\ got' = "none"
  /\ UNCHANGED << db, serverVars, usersCollection, cropsCollection, req, resp, nextInterestId, nextCropId, decremented, quantity0 >>

\* The ping resolves: isConnecting = false; return db
PingResolves(c) ==
  /\ calls[c].pc = "ping"
  /\ isConnecting' = FALSE
  /\ calls' = [calls EXCEPT ![c] = [pc |-> "returned", result |-> Handle(db)]]
  /\ got' = "none"
  /\ UNCHANGED << db, serverVars, usersCollection, cropsCollection, req, resp, nextInterestId, nextCropId, decremented, quantity0 >>

\* The ping rejects: the catch block; db stays assigned
PingRejects(c) ==
  /\ calls[c].pc = "ping"
  /\ isConnecting' = ResetOnFailure(isConnecting)
  /\ calls' = [calls EXCEPT ![c].pc = "threw"]
  /\ got' = "none"
  /\ UNCHANGED << db, serverVars, usersCollection, cropsCollection, req, resp, nextInterestId, nextCropId, decremented, quantity0 >>

\* getDB(): throws when db is unassigned, returns it otherwise
GetDB ==
  /\ got' = IF ~db THEN "threw" ELSE Handle(db)
  /\ UNCHANGED << db, isConnecting, calls, serverVars, usersCollection, cropsCollection, req, resp, nextInterestId, nextCropId, decremented, quantity0 >>

\* ---------------------------- calls of connectDB and getDB (C33-C36)
NextConfig ==
  \/ \E c \in Calls : ConnectDB(c)
  \/ \E c \in Calls : PollEnds(c)
  \/ \E c \in Calls : ClientConnectResolves(c)
  \/ \E c \in Calls : ClientConnectRejects(c)
  \/ \E c \in Calls : PingResolves(c)
  \/ \E c \in Calls : PingRejects(c)
  \/ GetDB

\* The store call that connectDB call c awaits settles, and the timeout of
\* its polling loop fires.
CallProceeds(c) ==
  \/ ClientConnectResolves(c) \/ ClientConnectRejects(c)
  \/ PingResolves(c) \/ PingRejects(c)
  \/ PollEnds(c)

SpecConfig ==
  Init /\ [][NextConfig]_vars /\ \A c \in Calls : WF_vars(CallProceeds(c))

\* --------------------- requests through ensureDBConnection from load (C32)
\* The main server as loaded: nothing assigned, the connectDB() of the last
\* line of the connection section awaiting client.connect().
InitGate ==
  /\ \E q \in InitQuantities :
       /\ cropsCollection =
            {[id |-> 1, ownerEmail |-> "owner@x", quantity |-> q,
              interests |-> SeedInterests]}
       /\ quantity0 = q
  /\ usersCollection = << >>
  /\ isConnected = FALSE
  /\ collections = FALSE
  /\ startup = "connecting"
  /\ InitConfig
  /\ req = [r \in Reqs |-> IdleReq]
  /\ resp = NoResp
  /\ nextInterestId = Len(SeedInterests) + 1
  /\ nextCropId = 2
  /\ decremented = [i \in InterestIds |-> 0]

\* Routes registered with ensureDBConnection.
GatedRoutes == {"getCrops", "postInterest", "getUsers"}

NextGate ==
  \/ \E r \in Reqs, op \in GatedRoutes : EnsureDBConnection(r, op)
  \/ \E r \in Reqs : ConnectResolves(r)
  \/ \E r \in Reqs : ConnectRejects(r)
  \/ StartupResolves
  \/ StartupRejects
  \/ \E r \in Reqs : HandlerRuns(r)

SpecGate == InitGate /\ [][NextGate]_vars

\* The record of request r after the step: its response if the step answered
\* it, its slot otherwise.
StepRec(r) == IF req'[r].pc = "done" THEN resp' ELSE req'[r]

\* The step is request r's first one.
Begins(r) == req[r].pc = "idle" /\ req'[r].pc # "idle"

\* The document with identifier id, before and after the step.
DocOf(coll, id) == IF \E d \in coll : d.id = id
                     THEN CHOOSE d \in coll : d.id = id
                     ELSE NoDoc

\* The interest with identifier i in document d.
InterestOf(d, i) == IF \E k \in DOMAIN d.interests : d.interests[k].id = i
                      THEN d.interests[CHOOSE k \in DOMAIN d.interests : d.interests[k].id = i]
                      ELSE NoInterest

\* The stored interest with identifier i, whatever crop holds it.
StoredInterest(coll, i) ==
  IF \E d \in coll : InterestOf(d, i) # NoInterest
    THEN InterestOf(CHOOSE d \in coll : InterestOf(d, i) # NoInterest, i)
    ELSE NoInterest

RECURSIVE AcceptedSum(_)
AcceptedSum(interests) ==
  IF interests = << >> THEN 0
  ELSE (IF Head(interests).status = "accepted" THEN Head(interests).quantity ELSE 0)
       + AcceptedSum(Tail(interests))

\* C1: with accept requests only, the quantities of the interests that have
\* reached 'accepted' never add up to more than the crop's quantity when the
\* first accept request began.
NoOversell ==
  \A d \in cropsCollection : AcceptedSum(d.interests) <= quantity0

\* C1 witness: acceptances have used up the whole starting quantity.
WitnessNoOversell ==
  \E d \in cropsCollection :
    /\ AcceptedSum(d.interests) = quantity0
    /\ d.quantity = 0

\* C2: every stored crop's quantity is >= 0, whatever main-server requests
\* have run and however they interleaved.
NonNegative ==
  \A d \in cropsCollection : d.quantity >= 0

\* C2 witness: an acceptance has taken a crop's quantity down to exactly 0.
WitnessNonNegative ==
  \E d \in cropsCollection : d.quantity = 0 /\ AcceptedSum(d.interests) > 0

\* The crop that holds interest i.
HolderOf(coll, i) ==
  IF \E d \in coll : InterestOf(d, i) # NoInterest
    THEN CHOOSE d \in coll : InterestOf(d, i) # NoInterest
    ELSE NoDoc

\* No other request, past or present, has the target of request record rec.
DistinctTarget(r, rec) ==
  \A r2 \in Reqs \ {r} : req[r2].interestId # rec.interestId

\* One step of an accept request for a pending interest nobody else targets:
\* it is refused at the pre-check or at the update exactly when the interest's
\* quantity exceeds the crop's current quantity, a refusal changes no crop,
\* and an update that went through is answered 200.
CommitOrderStep ==
  \A r \in Reqs :
    LET rec == StepRec(r)
        doc == HolderOf(cropsCollection, rec.interestId)
        q == InterestOf(doc, rec.interestId).quantity
    IN (/\ req'[r] # req[r]
        /\ rec.op \in TransitionOps /\ rec.status = "accepted"
        /\ DistinctTarget(r, rec))
       => /\ Begins(r) =>
               IF q <= doc.quantity
                 THEN req'[r].pc = "update" /\ cropsCollection' = cropsCollection
                 ELSE resp'.code = 400 /\ cropsCollection' = cropsCollection
          /\ req[r].pc = "update" =>
               IF q <= doc.quantity
                 THEN /\ req'[r].pc = "reread"
                      /\ DocOf(cropsCollection', doc.id).quantity = doc.quantity - q
                 ELSE resp'.code >= 400 /\ cropsCollection' = cropsCollection
          /\ req[r].pc = "reread" =>
               resp'.code = 200 /\ cropsCollection' = cropsCollection

\* Two accept requests, for the interests of 60 and of 50, against quantity
\* 100 and nothing else: once both are answered exactly one got 200 and the
\* quantity is 100 minus the accepted interest's quantity.
ScenarioB ==
  \A r1, r2 \in Reqs :
    (/\ quantity0 = 100
     /\ req[r1].pc = "done" /\ req[r1].status = "accepted" /\ req[r1].interestId = 1
     /\ req[r2].pc = "done" /\ req[r2].status = "accepted" /\ req[r2].interestId = 2
     /\ \A r3 \in Reqs \ {r1, r2} : req[r3].pc = "idle")
    => /\ (req[r1].code = 200) # (req[r2].code = 200)
       /\ DocOf(cropsCollection, 1).quantity =
            100 - (IF req[r1].code = 200 THEN 60 ELSE 50)

\* C3: concurrent accept requests for distinct pending interests succeed
\* exactly when their quantity fits what the requests committed before them
\* left, the others fail without changing the crop; of two accepts of 60 and
\* 50 against 100 exactly one succeeds and 100 minus its quantity remains.
CommitOrder == []ScenarioB /\ [][CommitOrderStep]_vars

\* C3 witness: the accept of 60 was answered 200, the accept of 50 was refused
\* and 40 remain.
WitnessCommitOrder ==
  \E r1, r2 \in Reqs :
    /\ req[r1].pc = "done" /\ req[r1].interestId = 1 /\ req[r1].code = 200
    /\ req[r2].pc = "done" /\ req[r2].interestId = 2 /\ req[r2].code >= 400
    /\ DocOf(cropsCollection, 1).quantity = 40

\* The step replaced the crop of request r by one whose quantity is lower by
\* the target's quantity and whose target interest is accepted.
Committed(r) ==
  LET doc == DocOf(cropsCollection, req[r].crop.id)
      new == DocOf(cropsCollection', req[r].crop.id)
      q == InterestOf(doc, req[r].interestId).quantity
  IN /\ doc # NoDoc /\ new # NoDoc
     /\ q > 0
     /\ new.quantity = doc.quantity - q
     /\ InterestOf(new, req[r].interestId).status = "accepted"
     /\ cropsCollection' = (cropsCollection \ {doc}) \cup {new}

\* C4: every step of an accept request either leaves every crop unchanged or
\* lowers the quantity by exactly the interest's quantity and sets that
\* interest to 'accepted' in the same step.
AtomicAccept ==
  [][\A r \in Reqs :
       (/\ req'[r] # req[r]
        /\ StepRec(r).op \in TransitionOps /\ StepRec(r).status = "accepted")
       => (cropsCollection' = cropsCollection \/ Committed(r))]_vars

\* C4 witness: an accept request has committed its update, decrement and
\* status together, and has not answered yet.
WitnessAtomicAccept ==
  \E r \in Reqs :
    /\ req[r].pc = "reread" /\ req[r].status = "accepted"
    /\ StoredInterest(cropsCollection, req[r].interestId).status = "accepted"
    /\ decremented[req[r].interestId] =
         StoredInterest(cropsCollection, req[r].interestId).quantity

\* C5: the total taken from a crop's quantity on behalf of one interest never
\* exceeds that interest's quantity.
DecrementAtMostOnce ==
  \A d \in cropsCollection : \A k \in DOMAIN d.interests :
    decremented[d.interests[k].id] <= d.interests[k].quantity

\* The interest a transition request reads in its first step.
TargetAsRead(rec) ==
  IF rec.op = "patchInterest"
    THEN StoredInterest(cropsCollection, rec.interestId)
    ELSE InterestOf(DocOf(cropsCollection, rec.cropId), rec.interestId)

\* C6: an accept request that reads its target interest as 'accepted' is
\* answered 400 'Interest has already been accepted' and writes nothing.
AlreadyProcessed ==
  [][\A r \in Reqs :
       (/\ Begins(r)
        /\ StepRec(r).op \in TransitionOps /\ StepRec(r).status = "accepted"
        /\ TargetAsRead(StepRec(r)).status = "accepted")
       => /\ req'[r].pc = "done"
          /\ resp'.code = 400
          /\ resp'.message = "Interest has already been accepted"
          /\ cropsCollection' = cropsCollection]_vars

\* C6 witness: an accept of an interest accepted before was just refused, the
\* interest's quantity having been taken once.
WitnessAlreadyProcessed ==
  /\ resp.message = "Interest has already been accepted"
  /\ decremented[resp.interestId] =
       StoredInterest(cropsCollection, resp.interestId).quantity

\* C7: a crop's interest list never holds two interests of one buyer email.
OneInterestPerBuyer ==
  \A d \in cropsCollection : \A j, k \in DOMAIN d.interests :
    j # k => d.interests[j].userEmail # d.interests[k].userEmail

\* Document d lists an interest of buyer e.
BuyerListed(d, e) == \E k \in DOMAIN d.interests : d.interests[k].userEmail = e

\* C8: a submission whose buyer the crop it reads already lists is answered
\* 400 'You have already shown interest in this crop' and updates nothing.
DuplicateRefused ==
  [][\A r \in Reqs :
       (/\ Begins(r)
        /\ StepRec(r).op = "postInterest"
        /\ StepRec(r).userEmail # ""
        /\ BuyerListed(DocOf(cropsCollection, StepRec(r).cropId), StepRec(r).userEmail))
       => /\ req'[r].pc = "done"
          /\ resp'.code = 400
          /\ resp'.message = "You have already shown interest in this crop"
          /\ cropsCollection' = cropsCollection]_vars

\* C8 witness: a second submission of a listed buyer was just refused and the
\* buyer's interest is still the only one of that buyer.
WitnessDuplicateRefused ==
  /\ resp.message = "You have already shown interest in this crop"
  /\ \E d \in cropsCollection :
       Cardinality({k \in DOMAIN d.interests : d.interests[k].userEmail = resp.userEmail}) = 1

InvalidArgumentMessages ==
  {"Missing required fields: cropId, userEmail, userName",
   "Quantity cannot be negative", "Quantity must be greater than 0"}

StoredPositive ==
  \A d \in cropsCollection : \A k \in DOMAIN d.interests : d.interests[k].quantity > 0

RaceIsInsufficientStock ==
  [][\A r \in Reqs :
       LET doc == DocOf(cropsCollection, req[r].crop.id)
           q == InterestOf(req[r].crop, req[r].interestId).quantity
       IN (/\ req[r].pc = "update" /\ req'[r] # req[r]
           /\ req[r].op \in TransitionOps /\ req[r].status = "accepted"
           /\ doc # NoDoc /\ doc.quantity < q)
          => /\ resp'.code = 400
             /\ resp'.message = "Insufficient quantity available"
             /\ resp'.requested = q /\ resp'.available = doc.quantity]_vars

\* An accept request reads a crop quantity below its target's quantity and is
\* answered 400 'Insufficient quantity available' with both amounts, no crop
\* being written.
InsufficientStockStep(r) ==
  LET rec == StepRec(r)
      doc == HolderOf(cropsCollection, rec.interestId)
      q == InterestOf(doc, rec.interestId).quantity
  IN /\ req'[r].pc = "done"
     /\ resp'.code = 400
     /\ resp'.message = "Insufficient quantity available"
     /\ resp'.requested = q
     /\ resp'.available = doc.quantity
     /\ cropsCollection' = cropsCollection

\* C11 as stated: every accept request that reads a crop quantity smaller
\* than its interest's quantity is answered with the insufficient-stock
\* error, whatever the interest's status.
InsufficientStockAlways ==
  [][\A r \in Reqs :
       (/\ Begins(r)
        /\ StepRec(r).op \in TransitionOps /\ StepRec(r).status = "accepted"
        /\ TargetAsRead(StepRec(r)) # NoInterest
        /\ HolderOf(cropsCollection, StepRec(r).interestId).quantity
             < TargetAsRead(StepRec(r)).quantity)
       => InsufficientStockStep(r)]_vars

\* The accept of the interest of 120 that follows the accept of the interest
\* of 40 against quantity 100 reports requested 120 and available 60.
ScenarioA ==
  \A r1, r2 \in Reqs :
    (/\ quantity0 = 100
     /\ req[r1].pc = "done" /\ req[r1].status = "accepted" /\ req[r1].interestId = 3
     /\ req[r1].code = 200
     /\ \A r3 \in Reqs \ {r1, r2} : req[r3].pc = "idle"
     /\ req[r2].pc = "done" /\ req[r2].status = "accepted" /\ req[r2].interestId = 4
     /\ resp.interestId = 4)
    => /\ resp.code = 400
       /\ resp.requested = 120 /\ resp.available = 60
       /\ DocOf(cropsCollection, 1).quantity = 60

\* C11: an accept request that reads its target interest in a status other
\* than 'accepted' and a crop quantity smaller than the interest's quantity
\* is answered 400 'Insufficient quantity available' with the requested and
\* the available amount and writes nothing; against quantity 100, accepting
\* 40 leaves 60 and accepting 120 then fails with requested 120, available 60.
InsufficientStock ==
  /\ []ScenarioA
  /\ [][\A r \in Reqs :
         (/\ Begins(r)
          /\ StepRec(r).op \in TransitionOps /\ StepRec(r).status = "accepted"
          /\ TargetAsRead(StepRec(r)) # NoInterest
          /\ TargetAsRead(StepRec(r)).status # "accepted"
          /\ HolderOf(cropsCollection, StepRec(r).interestId).quantity
               < TargetAsRead(StepRec(r)).quantity)
         => InsufficientStockStep(r)]_vars

\* C11 witness: 40 were accepted out of 100 and the accept of 120 was just
\* refused with requested 120 and available 60.
WitnessInsufficientStock ==
  /\ resp.message = "Insufficient quantity available"
  /\ resp.requested = 120 /\ resp.available = 60
  /\ StoredInterest(cropsCollection, 3).status = "accepted"
  /\ DocOf(cropsCollection, 1).quantity = 60

\* The step is the updateOne of an accept request that took its target's
\* quantity from document d, leaving document new with the target accepted.
AcceptWrote(d, new) ==
  \E r \in Reqs :
    /\ req[r].pc = "update" /\ req'[r].pc = "reread"
    /\ req[r].op \in TransitionOps /\ req[r].status = "accepted"
    /\ req[r].crop.id = d.id
    /\ InterestOf(new, req[r].interestId).status = "accepted"
    /\ d.quantity - new.quantity = InterestOf(d, req[r].interestId).quantity

\* The step is the updateOne of a crop update whose body carries the
\* quantity that document new now has.
CropUpdateWrote(d, new) ==
  \E r \in Reqs :
    /\ req[r].pc = "update" /\ req'[r].pc = "reread"
    /\ req[r].op = "putCrop"
    /\ req[r].cropId = d.id
    /\ req[r].body.hasQuantity
    /\ new.quantity = req[r].body.quantity /\ new.quantity >= 0

\* C12 as stated: a crop's quantity never increases and every decrease is
\* the decrement of an acceptance made in the same step.
QuantityOnlyDecrements ==
  [][\A d \in cropsCollection :
       LET new == DocOf(cropsCollection', d.id)
       IN (new # NoDoc /\ new.quantity # d.quantity)
          => (new.quantity < d.quantity /\ AcceptWrote(d, new))]_vars

\* C12: a crop's quantity changes only as the decrement of a successful
\* acceptance, by the quantity of the interest accepted in the same step, or
\* as the non-negative quantity a successful crop update sets; submissions
\* and transitions to another status never write it.
QuantityWriters ==
  [][\A d \in cropsCollection :
       LET new == DocOf(cropsCollection', d.id)
       IN (new # NoDoc /\ new.quantity # d.quantity)
          => \/ new.quantity < d.quantity /\ AcceptWrote(d, new)
             \/ CropUpdateWrote(d, new)]_vars

\* C12 witness: a crop update has raised the quantity an acceptance had
\* lowered.
WitnessQuantityWriters ==
  \E d \in cropsCollection :
    /\ AcceptedSum(d.interests) > 0
    /\ d.quantity > quantity0 - AcceptedSum(d.interests)
    /\ resp.op = "putCrop" /\ resp.code = 200

\* The interests that the step left in the store and that were there before.
KeptInterests ==
  {i \in InterestIds : /\ StoredInterest(cropsCollection, i) # NoInterest
                       /\ StoredInterest(cropsCollection', i) # NoInterest}

\* The interests that the step added to the store.
AddedInterests ==
  {i \in InterestIds : /\ StoredInterest(cropsCollection, i) = NoInterest
                       /\ StoredInterest(cropsCollection', i) # NoInterest}

TransitionWrote(i, s) ==
  \E r \in Reqs :
    /\ req[r].pc = "update" /\ req'[r].pc = "reread"
    /\ req[r].op \in TransitionOps
    /\ req[r].interestId = i /\ req[r].status = s

\* Every stored status is one of the four.
StatusInRange ==
  \A d \in cropsCollection : \A k \in DOMAIN d.interests :
    d.interests[k].status \in {"pending", "accepted", "rejected", "cancelled"}

OverwriteTargets(op) ==
  IF op = "patchInterest" THEN {"rejected", "cancelled", "pending"}
                          ELSE {"rejected", "pending"}

\* C14: a transition request whose target is rejected, cancelled or pending
\* is not refused for the status it reads, and its update sets the
\* interest's status to the target and its updatedAt anew while the crop's
\* quantity and the other interests stay as they are, also when the
\* interest was accepted before.
OverwriteNoRestock ==
  [][\A r \in Reqs :
       LET rec == StepRec(r)
           doc == DocOf(cropsCollection, req[r].crop.id)
           new == DocOf(cropsCollection', req[r].crop.id)
           old == InterestOf(doc, rec.interestId)
       IN /\ (/\ Begins(r)
               /\ rec.op \in TransitionOps
               /\ rec.status \in OverwriteTargets(rec.op)
               /\ TargetAsRead(rec) # NoInterest)
              => req'[r].pc = "update" /\ cropsCollection' = cropsCollection
          /\ (/\ req[r].pc = "update" /\ req'[r] # req[r]
               /\ rec.op \in TransitionOps
               /\ rec.status \in {"rejected", "cancelled", "pending"}
               /\ old # NoInterest)
              => /\ req'[r].pc = "reread"
                 /\ InterestOf(new, rec.interestId) =
                      [old EXCEPT !.status = rec.status, !.updatedAt = old.updatedAt + 1]
                 /\ new.quantity = doc.quantity
                 /\ \A i \in InterestIds \ {rec.interestId} :
                      InterestOf(new, i) = InterestOf(doc, i)]_vars

\* C14 witness: an interest accepted before has been rejected, and the
\* quantity taken for it is still missing from the crop.
WitnessOverwriteNoRestock ==
  \E d \in cropsCollection : \E k \in DOMAIN d.interests :
    /\ d.interests[k].status = "rejected"
    /\ d.interests[k].updatedAt = 2
    /\ decremented[d.interests[k].id] = d.interests[k].quantity
    /\ d.quantity = quantity0 - d.interests[k].quantity

\* Request r was just answered with one of the 400 responses of the status
\* validation, and no crop changed.
StatusRefused(r) ==
  /\ req'[r].pc = "done"
  /\ resp'.code = 400
  /\ resp'.message \in {"Missing required field: status",
                        "Missing required fields: interestId, cropId, status",
                        "Invalid status. Must be 'accepted', 'rejected', 'pending', or 'cancelled'",
                        "Invalid status. Must be 'accepted', 'rejected', or 'pending'"}
  /\ cropsCollection' = cropsCollection

\* The first step of a transition request takes the statuses in targets, and
\* only these, past the validation of the status on route op.
TakesExactly(op, targets) ==
  \A r \in Reqs :
    (Begins(r) /\ StepRec(r).op = op)
    => IF StepRec(r).status \in targets THEN ~StatusRefused(r) ELSE StatusRefused(r)

\* C15 as stated: on both routes a missing or unknown status is refused
\* with 400 and no change, and pending, accepted, rejected and cancelled are
\* each taken as the target.
FourTargetsBothRoutes ==
  [][/\ TakesExactly("patchInterest", {"pending", "accepted", "rejected", "cancelled"})
     /\ TakesExactly("putInterestStatus", {"pending", "accepted", "rejected", "cancelled"})]_vars

\* C15: a missing or unknown status is refused with 400 whatever the store
\* holds and nothing changes; PATCH /api/interests/:id takes pending,
\* accepted, rejected and cancelled as the target, PUT /api/interests/status
\* takes pending, accepted and rejected and refuses cancelled like an
\* unknown status.
TargetsByRoute ==
  [][/\ TakesExactly("patchInterest", {"pending", "accepted", "rejected", "cancelled"})
     /\ TakesExactly("putInterestStatus", {"pending", "accepted", "rejected"})]_vars

\* C15 witness: PUT /api/interests/status was just answered 'Invalid status'
\* for the target 'cancelled', the interest it names being stored.
WitnessTargetsByRoute ==
  /\ resp.op = "putInterestStatus"
  /\ resp.status = "cancelled"
  /\ resp.message = "Invalid status. Must be 'accepted', 'rejected', or 'pending'"
  /\ InterestOf(DocOf(cropsCollection, resp.cropId), resp.interestId) # NoInterest

\* Request r was just answered 404 with the given message, and no crop
\* changed.
NotFoundStep(r, message) ==
  /\ req'[r].pc = "done"
  /\ resp'.code = 404
  /\ resp'.message = message
  /\ cropsCollection' = cropsCollection

\* C16: a submission with its required fields that names a crop not in the
\* store is answered 404 'Crop not found'; a transition with a status its
\* route takes is answered 404 when the interest it names is not in the
\* store (PATCH), when its crop is not in the store or when that crop does
\* not hold the interest (PUT); none of them changes a crop.
NotFound ==
  [][\A r \in Reqs :
       LET rec == StepRec(r)
       IN /\ (/\ Begins(r) /\ rec.op = "postInterest"
               /\ rec.cropId # 0 /\ rec.userEmail # ""
               /\ DocOf(cropsCollection, rec.cropId) = NoDoc)
              => NotFoundStep(r, "Crop not found")
          /\ (/\ Begins(r) /\ rec.op = "patchInterest"
               /\ rec.status \in {"pending", "accepted", "rejected", "cancelled"}
               /\ StoredInterest(cropsCollection, rec.interestId) = NoInterest)
              => NotFoundStep(r, "Interest not found")
          /\ (/\ Begins(r) /\ rec.op = "putInterestStatus"
               /\ rec.interestId # 0 /\ rec.cropId # 0
               /\ rec.status \in {"pending", "accepted", "rejected"})
              => /\ DocOf(cropsCollection, rec.cropId) = NoDoc
                      => NotFoundStep(r, "Crop not found")
                 /\ (/\ DocOf(cropsCollection, rec.cropId) # NoDoc
                      /\ InterestOf(DocOf(cropsCollection, rec.cropId), rec.interestId)
                           = NoInterest)
                      => NotFoundStep(r, "Interest not found")]_vars

\* C16 witness: a request naming a crop or an interest that is not stored
\* was just answered 404 while the store holds a crop with its interests.
WitnessNotFound ==
  /\ resp.code = 404
  /\ \/ resp.op = "postInterest" /\ DocOf(cropsCollection, resp.cropId) = NoDoc
     \/ resp.op = "patchInterest"
          /\ StoredInterest(cropsCollection, resp.interestId) = NoInterest
  /\ \E d \in cropsCollection : d.interests # << >>

\* C17: a submission with its required fields, a stored crop, a buyer the
\* crop does not list and a positive quantity goes on to its update however
\* the quantity compares with the crop's; the update of a crop still stored
\* appends the interest as pending and answers 201 with a warning exactly
\* when the requested quantity exceeds the quantity of the crop as read.
SoftCapacity ==
  [][\A r \in Reqs :
       LET rec == StepRec(r)
           doc == DocOf(cropsCollection, rec.cropId)
           new == DocOf(cropsCollection', rec.cropId)
       IN /\ (/\ Begins(r) /\ rec.op = "postInterest"
               /\ rec.cropId # 0 /\ rec.userEmail # ""
               /\ doc # NoDoc /\ ~BuyerListed(doc, rec.userEmail)
               /\ rec.quantity > 0)
              => /\ req'[r].pc = "update"
                 /\ req'[r].crop = doc
          /\ (/\ req[r].pc = "update" /\ req'[r] # req[r]
               /\ rec.op = "postInterest"
               /\ doc # NoDoc)
              => /\ resp'.code = 201
                 /\ resp'.warning = (req[r].quantity > req[r].crop.quantity)
                 /\ InterestOf(new, req[r].interestId).status = "pending"
                 /\ InterestOf(new, req[r].interestId).quantity = req[r].quantity]_vars

\* C17 witness: a submission of 120 read the crop at 100 and was answered
\* 201 with the warning after the owner had raised the quantity to 150.
WitnessSoftCapacity ==
  /\ resp.op = "postInterest" /\ resp.code = 201
  /\ resp.warning
  /\ resp.quantity = 120 /\ quantity0 = 100
  /\ DocOf(cropsCollection, 1).quantity = 150
  /\ InterestOf(DocOf(cropsCollection, 1), resp.interestId).status = "pending"

\* C18: the update of a submission that finds its crop replaces that crop
\* by one whose interest list is the old list followed by the one new
\* pending interest and whose quantity is the same; with submissions, crop
\* updates and deletes interleaved, every step leaves the list of a crop it
\* keeps as a prefix of the new list, so no appended interest is lost and
\* the list is in the order of the appends.
AppendOnly ==
  [][/\ \A r \in Reqs :
          LET doc == DocOf(cropsCollection, req[r].cropId)
              new == DocOf(cropsCollection', req[r].cropId)
          IN (/\ req[r].pc = "update" /\ req'[r] # req[r]
              /\ req[r].op = "postInterest"
              /\ doc # NoDoc)
             => /\ resp'.code = 201
                /\ new.interests =
                     Append(doc.interests,
                            [id |-> req[r].interestId, userEmail |-> req[r].userEmail,
                             quantity |-> req[r].quantity, status |-> "pending",
                             updatedAt |-> 0])
                /\ new.quantity = doc.quantity
                /\ cropsCollection' = (cropsCollection \ {doc}) \cup {new}
     /\ \A d \in cropsCollection :
          LET new == DocOf(cropsCollection', d.id)
          IN new # NoDoc
             => /\ Len(new.interests) >= Len(d.interests)
                /\ SubSeq(new.interests, 1, Len(d.interests)) = d.interests]_vars

\* C18 witness: two buyers' submissions overlapped and both interests are
\* in the list, the one that began second appended first.
WitnessAppendOnly ==
  \E d \in cropsCollection :
    /\ Len(d.interests) = Len(SeedInterests) + 2
    /\ d.interests[Len(SeedInterests) + 1].id = Len(SeedInterests) + 2
    /\ d.interests[Len(SeedInterests) + 2].id = Len(SeedInterests) + 1
    /\ d.interests[Len(SeedInterests) + 1].userEmail
         # d.interests[Len(SeedInterests) + 2].userEmail
    /\ SubSeq(d.interests, 1, Len(SeedInterests)) = SeedInterests
    /\ d.quantity = quantity0

\* C19: the update of a submission whose crop is no longer stored is
\* answered 500 'Failed to add interest to crop' and adds the interest to no
\* crop, and a submission answered 201 has its interest in the store.
AppendFailure ==
  [][\A r \in Reqs :
       (/\ req[r].pc = "update" /\ req'[r] # req[r]
        /\ req[r].op = "postInterest")
       => /\ DocOf(cropsCollection, req[r].cropId) = NoDoc
               => /\ req'[r].pc = "done"
                  /\ resp'.code = 500
                  /\ resp'.message = "Failed to add interest to crop"
                  /\ cropsCollection' = cropsCollection
                  /\ StoredInterest(cropsCollection', req[r].interestId) = NoInterest
          /\ resp'.code = 201
               => StoredInterest(cropsCollection', req[r].interestId) # NoInterest]_vars

\* C19 witness: the crop was deleted after a submission had read it, and
\* the submission was just answered 500.
WitnessAppendFailure ==
  /\ resp.op = "postInterest" /\ resp.code = 500
  /\ resp.interestId > Len(SeedInterests)
  /\ cropsCollection = {}

\* The identifiers of the documents that the step created, removed or
\* changed.
WrittenIds ==
  {d.id : d \in (cropsCollection \ cropsCollection')
                  \cup (cropsCollection' \ cropsCollection)}

\* The crop a submission names, the crop a transition has read.
TargetCropId(rec) ==
  IF rec.op = "postInterest" THEN rec.cropId ELSE rec.crop.id

\* C20: a step of a submission or of a transition writes no crop document
\* but the one the request names or has read, and at most that one; every
\* other stored document is the same after the step.
OneDocumentPerCall ==
  [][\A r \in Reqs :
       (/\ req'[r] # req[r]
        /\ StepRec(r).op \in {"postInterest", "patchInterest", "putInterestStatus"})
       => /\ WrittenIds \subseteq {TargetCropId(req[r])}
          /\ \A d \in cropsCollection :
               d.id # TargetCropId(req[r]) => d \in cropsCollection']_vars

\* C20 witness: with two crops stored, an accept request has just taken its
\* interest's quantity from the first crop and the second crop is as it was
\* created.
WitnessOneDocumentPerCall ==
  /\ Cardinality(cropsCollection) = 2
  /\ \E r \in Reqs : req[r].pc = "reread" /\ req[r].crop.id = 1
  /\ DocOf(cropsCollection, 1).quantity < quantity0
  /\ DocOf(cropsCollection, 2) =
       [id |-> 2, ownerEmail |-> "owner@x", quantity |-> 50, interests |-> << >>]

\* The interests that the step removed from the store.
RemovedInterests ==
  {i \in InterestIds : /\ StoredInterest(cropsCollection, i) # NoInterest
                       /\ StoredInterest(cropsCollection', i) = NoInterest}

\* C21: a stored interest changes only by the update of a transition
\* request for it and leaves the store only with its crop, and the update
\* of PUT /api/crops/:id leaves the crop's identifier and interest list as
\* they were whatever its body carries.
InterestsFrame ==
  [][/\ \A i \in KeptInterests :
          StoredInterest(cropsCollection', i) # StoredInterest(cropsCollection, i)
          => TransitionWrote(i, StoredInterest(cropsCollection', i).status)
     /\ \A i \in RemovedInterests :
          DocOf(cropsCollection', HolderOf(cropsCollection, i).id) = NoDoc
     /\ \A r \in Reqs :
          (req[r].op = "putCrop" /\ req'[r] # req[r])
          => \A d \in cropsCollection :
               DocOf(cropsCollection', d.id).interests = d.interests]_vars

\* Document d holds an interest in status 'pending'.
HoldsPending(d) == \E k \in DOMAIN d.interests : d.interests[k].status = "pending"

\* C22: the deleteOne of a delete request removes the crop with its
\* interests, and the response carries the warning whenever the crop it
\* removed held a pending interest.
DeleteWarns ==
  [][\A r \in Reqs :
       LET doc == DocOf(cropsCollection, req[r].cropId)
       IN (/\ req[r].op = "deleteCrop" /\ req[r].pc = "update"
           /\ req'[r] # req[r]
           /\ doc # NoDoc)
          => /\ cropsCollection' = cropsCollection \ {doc}
             /\ resp'.code = 200
             /\ HoldsPending(doc) => resp'.warning]_vars

\* C23: a PUT or DELETE of a stored crop whose caller is not the crop's
\* stored owner (no caller identity and no stored owner included) is
\* answered 403 and changes no crop.
OwnerOnly ==
  [][\A r \in Reqs :
       LET rec == StepRec(r)
           doc == DocOf(cropsCollection, rec.cropId)
       IN (/\ Begins(r) /\ rec.op \in {"putCrop", "deleteCrop"}
           /\ doc # NoDoc
           /\ ~(rec.userEmail # "" /\ doc.ownerEmail = rec.userEmail))
          => /\ req'[r].pc = "done"
             /\ resp'.code = 403
             /\ cropsCollection' = cropsCollection]_vars

\* C24: a POST, PUT or DELETE of /api/crops that carries no Authorization
\* header is answered 401 at once and no crop is created, changed or
\* removed.
AuthenticationRequired ==
  [][\A r \in Reqs :
       (/\ Begins(r)
        /\ StepRec(r).op \in {"postCrop", "putCrop", "deleteCrop"}
        /\ ~StepRec(r).authorization)
       => /\ req'[r].pc = "done"
          /\ resp'.code = 401
          /\ cropsCollection' = cropsCollection]_vars

\* C25: in the interests router, two accept requests for two interests of
\* one crop are never both answered 200 when the two quantities add up to
\* more than the crop's quantity before them.
RouterNoOversell ==
  \A r1, r2 \in Reqs :
    (/\ r1 # r2
     /\ req[r1].op = "routerPutStatus" /\ req[r1].code = 200
     /\ req[r2].op = "routerPutStatus" /\ req[r2].code = 200
     /\ req[r1].interestId # req[r2].interestId)
    => StoredInterest(cropsCollection, req[r1].interestId).quantity
         + StoredInterest(cropsCollection, req[r2].interestId).quantity <= quantity0

\* C26: in the interests router, the update of an accept request for an
\* interest of quantity q leaves the crop's quantity at its value just
\* before the update minus q.
RouterDecrement ==
  [][\A r \in Reqs :
       LET doc == DocOf(cropsCollection, req[r].cropId)
           new == DocOf(cropsCollection', req[r].cropId)
       IN (/\ req[r].op = "routerPutStatus" /\ req[r].status = "accepted"
           /\ req[r].pc = "update" /\ req'[r].pc = "reread")
          => new.quantity = doc.quantity - InterestOf(doc, req[r].interestId).quantity]_vars

\* C27: the users collection never holds two documents with one email.
OneUserPerEmail ==
  \A j, k \in DOMAIN usersCollection :
    j # k => usersCollection[j] # usersCollection[k]

\* C28: the 200 response of a transition carries a crop, and in that crop
\* the target interest has the requested status.
ResponseHasUpdatedCrop ==
  [][\A r \in Reqs :
       (/\ req[r].op \in TransitionOps
        /\ req[r].pc = "reread" /\ req'[r].pc = "done"
        /\ resp'.code = 200)
       => /\ resp'.crop # NoDoc
          /\ InterestOf(resp'.crop, req[r].interestId).status = req[r].status]_vars

\* ------------------------------------------------------------------ C29
\* C29 as stated: a submission with its required fields and a zero, negative
\* or missing quantity is answered with the quantity's 400 whether or not the
\* crop exists and whether or not the crop lists the buyer.
QuantityCheckedFirst ==
  [][\A r \in Reqs :
       (/\ Begins(r)
        /\ StepRec(r).op = "postInterest"
        /\ StepRec(r).cropId # 0 /\ StepRec(r).userEmail # ""
        /\ StepRec(r).quantity <= 0)
       => /\ resp'.code = 400
          /\ resp'.message \in {"Quantity cannot be negative",
                                "Quantity must be greater than 0"}
          /\ cropsCollection' = cropsCollection]_vars

\* C29 amended: the required fields are checked before the store is read, the
\* quantity after the crop lookup and the duplicate scan.  A submission with
\* its required fields and a zero, negative or missing quantity is answered
\* 404 'Crop not found' when the crop is absent, 400 'You have already shown
\* interest in this crop' when the crop lists the buyer, and the quantity's
\* 400 otherwise; it writes nothing in each case.
ValidationOrder ==
  [][\A r \in Reqs :
       (/\ Begins(r)
        /\ StepRec(r).op = "postInterest"
        /\ StepRec(r).cropId # 0 /\ StepRec(r).userEmail # ""
        /\ StepRec(r).quantity <= 0)
       => LET rec == StepRec(r)
              doc == DocOf(cropsCollection, rec.cropId)
          IN /\ req'[r].pc = "done"
             /\ cropsCollection' = cropsCollection
             /\ doc = NoDoc
                  => resp'.code = 404 /\ resp'.message = "Crop not found"
             /\ (doc # NoDoc /\ BuyerListed(doc, rec.userEmail))
                  => /\ resp'.code = 400
                     /\ resp'.message = "You have already shown interest in this crop"
             /\ (doc # NoDoc /\ ~BuyerListed(doc, rec.userEmail))
                  => /\ resp'.code = 400
                     /\ resp'.message = (IF rec.quantity < 0
                                           THEN "Quantity cannot be negative"
                                           ELSE "Quantity must be greater than 0")]_vars

\* C29 witness: a submission of a non-positive quantity for an absent crop
\* was just answered 404.
WitnessValidationOrder ==
  /\ resp.op = "postInterest" /\ resp.quantity <= 0
  /\ resp.cropId # 0 /\ resp.userEmail # ""
  /\ resp.code = 404
  /\ DocOf(cropsCollection, resp.cropId) = NoDoc

\* ------------------------------------------------------------------ C30
\* C30: the update of a successful transition leaves the crop's interest list
\* with the same length and order; the interest whose identifier was given
\* gets the requested status and a new updatedAt and keeps its buyer and
\* quantity, every other interest of the list is unchanged, and so is every
\* other crop.
TransitionFrame ==
  [][\A r \in Reqs :
       (/\ req[r].pc = "update" /\ req'[r].pc = "reread"
        /\ req[r].op \in {"patchInterest", "putInterestStatus"})
       => LET old == DocOf(cropsCollection, req[r].crop.id)
              new == DocOf(cropsCollection', req[r].crop.id)
          IN /\ old # NoDoc /\ new # NoDoc
             /\ Len(new.interests) = Len(old.interests)
             /\ \A k \in DOMAIN old.interests :
                  IF old.interests[k].id = req[r].interestId
                    THEN new.interests[k] =
                           [old.interests[k] EXCEPT !.status = req[r].status,
                                                    !.updatedAt = @ + 1]
                    ELSE new.interests[k] = old.interests[k]
             /\ \A d \in cropsCollection : d.id # old.id => d \in cropsCollection']_vars

\* C30 witness: a transition of the first interest to 'rejected' was just
\* answered 200 on a crop of five interests, and the four others are as they
\* were stored.
WitnessTransitionFrame ==
  /\ resp.op \in {"patchInterest", "putInterestStatus"}
  /\ resp.code = 200 /\ resp.interestId = 1 /\ resp.status = "rejected"
  /\ \E d \in cropsCollection :
       /\ Len(d.interests) = Len(SeedInterests) + 1
       /\ d.interests[1].status = "rejected" /\ d.interests[1].updatedAt = 1
       /\ \A k \in 2..Len(SeedInterests) : d.interests[k] = SeedInterests[k]
       /\ d.interests[Len(SeedInterests) + 1].status = "pending"
       /\ d.interests[Len(SeedInterests) + 1].updatedAt = 0

\* ------------------------------------------------------------------ C31
\* The step answers request r: it ends the request and sends one response,
\* that of r's route, with an HTTP status.
Answers(r) ==
  /\ req[r].pc # "done" /\ req'[r].pc = "done"
  /\ resp' # NoResp /\ resp'.pc = "done"
  /\ resp'.op \in {"postInterest", "patchInterest", "putInterestStatus"}
  /\ resp'.code \in {200, 201, 400, 404, 500}

\* Every step is one request's: it sends no response and leaves the request
\* awaiting a store call, or it answers the request; an answered request
\* takes no further step.
OneRequestSteps ==
  /\ \A r \in Reqs :
       req'[r] # req[r]
       => /\ req[r].pc # "done"
          /\ IF req'[r].pc \in {"update", "reread"}
               THEN resp' = NoResp
               ELSE Answers(r)
  /\ \A r1, r2 \in Reqs :
       (req'[r1] # req[r1] /\ req'[r2] # req[r2]) => r1 = r2
  /\ (resp' # NoResp) => (\E r \in Reqs : req'[r] # req[r])

\* C31: every step of a submission or transition request either sends no
\* response and leaves the request awaiting a store call, or sends exactly
\* one response and ends the request; a request that was answered takes no
\* further step, no step answers two requests, and, every store call
\* settling, every request that awaits a store call is eventually answered.
ExactlyOneResponse ==
  /\ [][OneRequestSteps]_vars
  /\ \A r \in Reqs : (req[r].pc \notin {"idle", "done"}) ~> (req[r].pc = "done")

\* C31 witness: an updateOne of a submission rejected and the request was
\* answered by the catch block, the store unchanged.
WitnessExactlyOneResponse ==
  /\ resp.op = "postInterest" /\ resp.code = 500
  /\ resp.message = "Failed to add interest"
  /\ resp.interestId # 0
  /\ \A d \in cropsCollection : \A k \in DOMAIN d.interests :
       d.interests[k].id # resp.interestId

\* ------------------------------------------------------------------ C32
\* The step is the next() of ensureDBConnection for request r.
CallsNext(r) == req[r].pc # "handler" /\ req'[r].pc = "handler"

InFlight == {c \in Calls : calls[c].pc = "connect"}

\* The step is the start of connectDB call c.
CallBegins(c) == calls[c].pc = "idle" /\ calls'[c].pc # "idle"

\* C33: at most one connectDB call awaits client.connect() at a time and
\* isConnecting is true while one does; a call that begins while another
\* awaits client.connect() enters the polling loop; and once db is assigned
\* no call issues client.connect(), every new call returning db at once.
ConnectsOnce ==
  /\ [](Cardinality(InFlight) <= 1 /\ (InFlight # {} => isConnecting))
  /\ [][\A c \in Calls :
          /\ (CallBegins(c) /\ InFlight # {}) => calls'[c].pc = "waiting"
          /\ (db /\ calls[c].pc # "connect") => calls'[c].pc # "connect"
          /\ (db /\ CallBegins(c))
               => (calls'[c].pc = "returned" /\ calls'[c].result = "db")]_vars

\* C33 witness: one call awaits client.connect(), two others that began
\* meanwhile are in the polling loop, and db is not assigned yet.
WitnessConnectsOnce ==
  /\ ~db /\ isConnecting
  /\ Cardinality(InFlight) = 1
  /\ Cardinality({c \in Calls : calls[c].pc = "waiting"}) = 2

\* ------------------------------------------------------------------ C34
\* C34 as stated: every connectDB call that has returned returned the
\* assigned db, whether it started the attempt or waited on it; a call whose
\* attempt failed has thrown instead.
ReturnsHandleOrThrows ==
  \A c \in Calls : calls[c].pc = "returned" => calls[c].result = "db"

\* ------------------------------------------------------------------ C35
\* The step ends the attempt of call c: its client.connect() rejected, or
\* its ping resolved or rejected.
AttemptEnds(c) ==
  /\ calls[c].pc \in {"connect", "ping"}
  /\ calls'[c].pc \in {"returned", "threw"}

Succeeded == {c \in Calls : calls[c].pc = "returned" /\ calls[c].result = "db"}

\* C36 as stated: a getDB call throws when no connectDB call has yet
\* returned the handle, and returns that handle once one has.
GetDBFollowsConnectDB ==
  got # "none" => got = (IF Succeeded = {} THEN "threw" ELSE "db")


====
